---- MODULE Spec2Model ----
(***************************************************************************)
(* Model of the PhonePe Pulse ETL loader, src/etl_load_phonepe.py:         *)
(* file discovery, path-context resolution, the nine record extractors     *)
(* and the load loop process_and_load with its row sink.                   *)
(*                                                                         *)
(* Strings are sequences of atoms (an atom is a run of characters that the *)
(* code never looks inside: a digit, a marker word, the ".json" suffix).   *)
(* The atoms are prefix-free, so comparing two strings atom by atom with   *)
(* AtomRank is comparing them character by character.                      *)
(* A Python value is a tagged record: None, int, float, str, list, dict.   *)
(***************************************************************************)
EXTENDS Integers, Sequences, FiniteSets, TLC

VARIABLES
    \* ---- the source tree on disk
    dirs,       \* category folders that exist under <repo>/data
    tree,       \* the *.json paths present under those folders
    fs,         \* path -> content of the file, fixed when it is first opened
    \* ---- one run of process_and_load
    pc,         \* position of the run
    files,      \* result of discover_json_files: category -> sorted list of paths
    cat,        \* which of the three loops is running (index into Categories)
    idx,        \* position of the current file in files[category]
    j,          \* the parsed document of the current file
    batch,      \* the DataFrame about to be handed to bulk_insert
    total,      \* the running total
    sink,       \* the row sink: the batches appended so far, in order
    events,     \* the run's history: read attempts, extractor returns, sink writes, exceptions
    returned,   \* the value process_and_load returned
    prev,       \* outcome of the previous clean run over the same tree
    \* ---- parse_path_context applied to an arbitrary path
    ppath,      \* the parts of the path
    pctx,       \* <<the tuple it returned>>, empty before the call
    \* ---- one extractor applied to an arbitrary document
    xin,        \* the call: which extractor, the kind, the document
    xout        \* <<what the call ended in>>, empty before the call

runVars  == <<dirs, tree, fs, pc, files, cat, idx, j, batch, total, sink, events, returned, prev>>
pathVars == <<ppath, pctx>>
callVars == <<xin, xout>>
vars     == <<dirs, tree, fs, pc, files, cat, idx, j, batch, total, sink, events, returned, prev,
              ppath, pctx, xin, xout>>

-----------------------------------------------------------------------------
(* Python values *)

PyNone      == [t |-> "none"]
PyInt(n)    == [t |-> "int", i |-> n]
PyFloat(n)  == [t |-> "float", f |-> n]
PyStr(s)    == [t |-> "str", s |-> s]
PyList(l)   == [t |-> "list", l |-> l]
PyDict(k, d) == [t |-> "dict", k |-> k, d |-> d]

IsNone(v) == v.t = "none"
IsDict(v) == v.t = "dict"
IsList(v) == v.t = "list"
IsStr(v)  == v.t = "str"

-----------------------------------------------------------------------------
(* Strings as atom sequences *)

DigitAtoms == {"0", "1", "2", "3", "4", "5", "6", "7", "8", "9"}

\* A character str.isdigit() accepts and int() rejects (a superscript two).
SuperscriptAtoms == {"sup2"}

SuffixAtoms == {".json"}

DigitValue(a) ==
    CASE a = "0" -> 0 [] a = "1" -> 1 [] a = "2" -> 2 [] a = "3" -> 3 [] a = "4" -> 4
      [] a = "5" -> 5 [] a = "6" -> 6 [] a = "7" -> 7 [] a = "8" -> 8 [] a = "9" -> 9

\* str.isdigit(): at least one character and every character a digit.
isdigit(s) == Len(s) > 0 /\ \A i \in 1..Len(s) : s[i] \in DigitAtoms \cup SuperscriptAtoms

\* int(s) of a string raises ValueError unless s is a decimal literal.
IsDecimal(s) == Len(s) > 0 /\ \A i \in 1..Len(s) : s[i] \in DigitAtoms

RECURSIVE DecimalValue(_)
DecimalValue(s) ==
    IF Len(s) = 0 THEN 0
    ELSE 10 * DecimalValue(SubSeq(s, 1, Len(s) - 1)) + DigitValue(s[Len(s)])

\* pathlib's PurePath.stem: the name without its last suffix; a name that
\* is only a suffix (a dot file) is its own stem.
stem(name) ==
    IF Len(name) > 1 /\ name[Len(name)] \in SuffixAtoms
    THEN SubSeq(name, 1, Len(name) - 1)
    ELSE name

\* str.replace('%20', ' ')
ReplacePct20(s) == [i \in 1..Len(s) |-> IF s[i] = "%20" THEN " " ELSE s[i]]

\* tuple.index(x): the first position of x; Len+1 stands for ValueError.
RECURSIVE IndexFrom(_, _, _)
IndexFrom(seq, x, i) ==
    IF i > Len(seq) THEN i
    ELSE IF seq[i] = x THEN i ELSE IndexFrom(seq, x, i + 1)

index(seq, x) == IndexFrom(seq, x, 1)

In(x, seq) == \E i \in 1..Len(seq) : seq[i] = x

-----------------------------------------------------------------------------
(* parse_path_context *)

NoContext == [country |-> PyNone, state |-> PyNone, district |-> PyNone,
              year |-> PyNone, quarter |-> PyNone]

\* Lines 489-490 / 496-497 / 503-504: the quarter from the file name's stem.
\* A ValueError of int() leaves the try block with nothing more assigned.
QuarterStep(tail, ctx) ==
    LET q == stem(tail[Len(tail)])
    IN  IF isdigit(q) /\ IsDecimal(q)
        THEN [ctx EXCEPT !.quarter = PyInt(DecimalValue(q))]
        ELSE ctx

\* Lines 488 / 495 / 502 and what follows them in the same try block.
YearStep(tail, ctx) ==
    LET y == tail[Len(tail) - 1]
    IN  IF isdigit(y)
        THEN IF IsDecimal(y)
             THEN QuarterStep(tail, [ctx EXCEPT !.year = PyInt(DecimalValue(y))])
             ELSE ctx      \* int() raised: the except clause passes
        ELSE QuarterStep(tail, ctx)

\* Lines 486-491 (field "country") and 493-498 (field "state"): the marker's
\* next segment, then year and quarter, all in one try block.
MarkerBranch(tail, marker, field, ctx) ==
    LET mi == index(tail, marker)
    IN  IF mi + 1 > Len(tail)
        THEN ctx           \* IndexError: nothing of the block is assigned
        ELSE YearStep(tail, [ctx EXCEPT ![field] = PyStr(tail[mi + 1])])

\* Lines 507-509: state-wise sets the state only.
StateWiseBranch(tail, ctx) ==
    LET si == index(tail, <<"state", "-wise">>)
    IN  IF si + 1 > Len(tail) THEN ctx
        ELSE [ctx EXCEPT !.state = PyStr(tail[si + 1])]

\* The aggregated branch with the state marker read only when the tail has
\* no country marker.
AggregatedContextCountryOnly(tail) ==
    IF In(<<"country">>, tail)
    THEN MarkerBranch(tail, <<"country">>, "country", NoContext)
    ELSE IF In(<<"state">>, tail)
    THEN MarkerBranch(tail, <<"state">>, "state", NoContext)
    ELSE NoContext

AggregatedContext(tail) ==
    LET c1 == IF In(<<"country">>, tail)
              THEN MarkerBranch(tail, <<"country">>, "country", NoContext)
              ELSE NoContext
    IN  IF In(<<"state">>, tail)
        THEN MarkerBranch(tail, <<"state">>, "state", c1)
        ELSE c1

OtherContext(tail) ==
    LET c1 == IF In(<<"country">>, tail) /\ In(<<"india">>, tail)
              THEN YearStep(tail, NoContext)
              ELSE NoContext
    IN  IF In(<<"state", "-wise">>, tail)
        THEN StateWiseBranch(tail, c1)
        ELSE c1

parse_path_context(parts) ==
    LET di   == index(parts, <<"data">>)
        idx0 == IF di > Len(parts) THEN 0 ELSE di - 1     \* 0-based, as in the code
        tail == SubSeq(parts, idx0 + 2, Len(parts))
        c    == IF Len(tail) >= 4
                THEN IF tail[1] = <<"aggregated">>
                     THEN AggregatedContext(tail)
                     ELSE OtherContext(tail)
                ELSE NoContext
    IN  IF IsStr(c.state)
        THEN [c EXCEPT !.state = PyStr(ReplacePct20(c.state.s))]
        ELSE c

-----------------------------------------------------------------------------
(* Python primitives the extractors use *)

\* bool(v)
Truthy(v) ==
    CASE v.t = "none"  -> FALSE
      [] v.t = "int"   -> v.i # 0
      [] v.t = "float" -> v.f # 0
      [] v.t = "str"   -> Len(v.s) > 0
      [] v.t = "list"  -> Len(v.l) > 0
      [] v.t = "dict"  -> Len(v.k) > 0

\* a or b
Or(a, b) == IF Truthy(a) THEN a ELSE b

\* k in d, for a dict d
HasKey(d, key) == \E i \in 1..Len(d.k) : d.k[i] = key

\* d.get(k), for a dict d (the callers check that d is one, or raise)
get(d, key) ==
    IF HasKey(d, key) THEN d.d[CHOOSE i \in 1..Len(d.k) : d.k[i] = key] ELSE PyNone

\* d.get(k, default)
getDefault(d, key, default) ==
    IF HasKey(d, key) THEN get(d, key) ELSE default

\* Lines 158-166.
RECURSIVE safe_get(_, _)
safe_get(d, keys) ==
    IF Len(keys) = 0 THEN d
    ELSE IF ~IsDict(d) THEN PyNone
    ELSE LET cur == get(d, Head(keys))
         IN  IF IsNone(cur) THEN PyNone ELSE safe_get(cur, Tail(keys))

\* int(v) raises TypeError on None, list and dict and ValueError on a string
\* that is no decimal literal.
IntRaises(v) ==
    CASE v.t = "int"   -> FALSE
      [] v.t = "float" -> FALSE
      [] v.t = "str"   -> ~IsDecimal(v.s)
      [] OTHER         -> TRUE

IntValue(v) ==
    CASE v.t = "int"   -> v.i
      [] v.t = "float" -> v.f          \* floats of the model are whole numbers
      [] v.t = "str"   -> DecimalValue(v.s)

\* float(v): the same failures as int(v).
FloatRaises(v) == IntRaises(v)

FloatValue(v) == IntValue(v)

\* `for x in v` raises TypeError unless v is a list, a dict or a string.
IterRaises(v) == v.t \in {"none", "int", "float"}

\* What `for x in v` binds x to: the elements of a list, the keys of a dict,
\* the characters of a string.
IterItems(v) ==
    CASE v.t = "list" -> v.l
      [] v.t = "dict" -> [i \in 1..Len(v.k) |-> PyStr(<<v.k[i]>>)]
      [] v.t = "str"  -> [i \in 1..Len(v.s) |-> PyStr(<<v.s[i]>>)]

\* x not in (None, "")
NotNoneOrEmpty(v) == ~IsNone(v) /\ ~(IsStr(v) /\ Len(v.s) = 0)

\* The rows a loop appends, item by item: the lists of each iteration, joined.
RECURSIVE Flatten(_)
Flatten(lists) ==
    IF Len(lists) = 0 THEN <<>> ELSE Head(lists) \o Flatten(Tail(lists))

\* sum(...) of a generator's terms.
RECURSIVE Sum(_)
Sum(terms) ==
    IF Len(terms) = 0 THEN 0 ELSE Head(terms) + Sum(Tail(terms))

\* The columns every table shares, as process_and_load passes them.
Header(source, country, state, district, year, quarter) ==
    [source_path |-> source, country |-> country, state |-> state,
     district |-> district, year |-> year, quarter |-> quarter]

\* What an extractor call ends in: its rows, or an exception.
Returned(rows) == [raised |-> FALSE, rows |-> rows]
Raised         == [raised |-> TRUE, rows |-> <<>>]


-----------------------------------------------------------------------------
(* parse_aggregated_transaction, lines 170-204 *)

\* Lines 178-182: the scan for the instrument of type TOTAL.  inst.get on an
\* element that is no dict raises AttributeError, outside any try block.
RECURSIVE TotalScan(_, _)
TotalScan(items, i) ==
    IF i > Len(items) THEN [r |-> "absent"]
    ELSE IF ~IsDict(items[i]) THEN [r |-> "raise"]
    ELSE IF get(items[i], "type") = PyStr(<<"TOTAL">>)
         THEN [r |-> "found", inst |-> items[i]]
         ELSE TotalScan(items, i + 1)

\* Lines 184-187 and 189-192: sum(int(i.get(key) or 0) for i in instruments)
\* inside try/except Exception: any failure gives None.
InstrumentTerm(inst, key) == Or(get(inst, key), PyInt(0))

InstrumentSumFails(items, key) ==
    \E i \in 1..Len(items) :
        \/ ~IsDict(items[i])
        \/ IntRaises(InstrumentTerm(items[i], key))

InstrumentSum(items, key) ==
    Sum([i \in 1..Len(items) |-> IntValue(InstrumentTerm(items[i], key))])

FallbackCount(items) ==
    IF InstrumentSumFails(items, "count") THEN PyNone
    ELSE PyInt(InstrumentSum(items, "count"))

FallbackAmount(items) ==
    IF InstrumentSumFails(items, "amount") THEN PyNone
    ELSE PyFloat(InstrumentSum(items, "amount"))

\* Lines 174-175: rec.get on an entry that is no dict raises.
AggTxInstruments(rec) == getDefault(rec, "paymentInstruments", PyList(<<>>))

AggTxTotalCount(rec) ==
    LET items == IterItems(AggTxInstruments(rec))
        scan  == TotalScan(items, 1)
        tc    == IF scan.r = "found" THEN get(scan.inst, "count") ELSE PyNone
    IN  IF IsNone(tc) THEN FallbackCount(items) ELSE tc

AggTxTotalAmount(rec) ==
    LET items == IterItems(AggTxInstruments(rec))
        scan  == TotalScan(items, 1)
        ta    == IF scan.r = "found" THEN get(scan.inst, "amount") ELSE PyNone
    IN  IF IsNone(ta) THEN FallbackAmount(items) ELSE ta

AggTxEntryRaises(rec) ==
    \/ ~IsDict(rec)
    \/ IterRaises(AggTxInstruments(rec))
    \/ TotalScan(IterItems(AggTxInstruments(rec)), 1).r = "raise"
    \/ (NotNoneOrEmpty(AggTxTotalCount(rec)) /\ IntRaises(AggTxTotalCount(rec)))
    \/ (NotNoneOrEmpty(AggTxTotalAmount(rec)) /\ FloatRaises(AggTxTotalAmount(rec)))

\* Lines 193-203.
AggTxRow(rec, hdr) ==
    LET tc == AggTxTotalCount(rec)
        ta == AggTxTotalAmount(rec)
    IN  hdr @@ [transaction_type   |-> get(rec, "name"),
                transaction_count  |-> IF NotNoneOrEmpty(tc) THEN PyInt(IntValue(tc)) ELSE PyNone,
                transaction_amount |-> IF NotNoneOrEmpty(ta) THEN PyFloat(FloatValue(ta)) ELSE PyNone]

AggTxData(doc) == Or(safe_get(doc, <<"data", "transactionData">>), PyList(<<>>))

parse_aggregated_transaction(doc, hdr) ==
    LET tdata == AggTxData(doc)
    IN  IF IterRaises(tdata) THEN Raised
        ELSE IF \E i \in 1..Len(IterItems(tdata)) : AggTxEntryRaises(IterItems(tdata)[i])
        THEN Raised
        ELSE Returned([i \in 1..Len(IterItems(tdata)) |-> AggTxRow(IterItems(tdata)[i], hdr)])

-----------------------------------------------------------------------------
(* parse_aggregated_user, lines 206-249 *)

AggUserData(doc) == Or(safe_get(doc, <<"data">>), PyDict(<<>>, <<>>))

\* Line 215.
AggUserHasTotals(data) ==
    IsDict(data) /\ \E key \in {"registeredUsers", "appOpens", "activeUsers"} : HasKey(data, key)

AggUserTotalsRaises(data) ==
    \/ IntRaises(Or(get(data, "registeredUsers"), PyInt(0)))
    \/ IntRaises(Or(get(data, "appOpens"), PyInt(0)))
    \/ (~IsNone(get(data, "activeUsers")) /\ IntRaises(Or(get(data, "activeUsers"), PyInt(0))))

\* Lines 216-226.
AggUserTotalsRow(data, hdr) ==
    hdr @@ [registered_users |-> PyInt(IntValue(Or(get(data, "registeredUsers"), PyInt(0)))),
            app_opens        |-> PyInt(IntValue(Or(get(data, "appOpens"), PyInt(0)))),
            active_users     |-> IF ~IsNone(get(data, "activeUsers"))
                                 THEN PyInt(IntValue(Or(get(data, "activeUsers"), PyInt(0))))
                                 ELSE PyNone]

\* Lines 236-237, per device record.
DeviceRegistered(rec) == Or(Or(get(rec, "registeredUsers"), get(rec, "count")), PyInt(0))
DeviceAppOpens(rec)   == Or(Or(get(rec, "appOpens"), get(rec, "appOpensCount")), PyInt(0))

AggUserDevicesRaises(devices) ==
    \E i \in 1..Len(devices) :
        \/ ~IsDict(devices[i])
        \/ IntRaises(DeviceRegistered(devices[i]))
        \/ IntRaises(DeviceAppOpens(devices[i]))

\* Lines 232-248.
AggUserDevicesRow(devices, hdr) ==
    hdr @@ [registered_users |-> PyInt(Sum([i \in 1..Len(devices) |-> IntValue(DeviceRegistered(devices[i]))])),
            app_opens        |-> PyInt(Sum([i \in 1..Len(devices) |-> IntValue(DeviceAppOpens(devices[i]))])),
            active_users     |-> PyNone]

parse_aggregated_user(doc, hdr) ==
    LET data == AggUserData(doc)
        users_by_device == IF IsDict(data) THEN get(data, "usersByDevice") ELSE PyNone
    IN  IF AggUserHasTotals(data)
        THEN IF AggUserTotalsRaises(data) THEN Raised
             ELSE Returned(<<AggUserTotalsRow(data, hdr)>>)
        ELSE IF IsList(users_by_device) /\ Truthy(users_by_device)
        THEN IF AggUserDevicesRaises(users_by_device.l) THEN Raised
             ELSE Returned(<<AggUserDevicesRow(users_by_device.l, hdr)>>)
        ELSE Returned(<<>>)

-----------------------------------------------------------------------------
(* parse_aggregated_insurance, lines 252-269 *)

\* Lines 254-256.
AggInsList(doc) ==
    LET found == Or(Or(safe_get(doc, <<"data", "insurance">>),
                       safe_get(doc, <<"data", "insuranceData">>)),
                    PyList(<<>>))
    IN  IF IsDict(found) THEN PyList(<<found>>) ELSE found

AggInsPolicies(rec) == Or(Or(get(rec, "count"), get(rec, "policies")), PyInt(0))
AggInsPremium(rec)  == Or(Or(get(rec, "amount"), get(rec, "premium")), PyFloat(0))

AggInsEntryRaises(rec) ==
    \/ ~IsDict(rec)
    \/ IntRaises(AggInsPolicies(rec))
    \/ FloatRaises(AggInsPremium(rec))

\* Lines 258-268.
AggInsRow(rec, hdr) ==
    hdr @@ [insurance_type |-> Or(get(rec, "name"), get(rec, "insuranceType")),
            total_policies |-> PyInt(IntValue(AggInsPolicies(rec))),
            total_premium  |-> PyFloat(FloatValue(AggInsPremium(rec)))]

parse_aggregated_insurance(doc, hdr) ==
    LET ins_list == AggInsList(doc)
    IN  IF IterRaises(ins_list) THEN Raised
        ELSE IF \E i \in 1..Len(IterItems(ins_list)) : AggInsEntryRaises(IterItems(ins_list)[i])
        THEN Raised
        ELSE Returned([i \in 1..Len(IterItems(ins_list)) |-> AggInsRow(IterItems(ins_list)[i], hdr)])

-----------------------------------------------------------------------------
(* parse_map_json, lines 271-376 *)

\* Line 280 without its `or {}`.
MapDataNoDefault(doc) == safe_get(doc, <<"data">>)

\* Line 280.
MapData(doc) == Or(safe_get(doc, <<"data">>), PyDict(<<>>, <<>>))

WithDistrict(hdr, name) == [hdr EXCEPT !.district = name]

\* Lines 284-290: the list-valued candidate containers, in key order.
MapTxCandidates(data) ==
    LET keys  == <<"hoverDataList", "data", "hoverData", "states">>
        byKey == IF IsDict(data)
                 THEN Flatten([i \in 1..Len(keys) |->
                                 IF HasKey(data, keys[i]) /\ IsList(get(data, keys[i]))
                                 THEN <<get(data, keys[i])>> ELSE <<>>])
                 ELSE <<>>
    IN  IF Len(byKey) = 0 /\ IsList(data) THEN <<data>> ELSE byKey

\* Line 296.
MapTxMetric(item) ==
    Or(Or(Or(get(item, "metric"), get(item, "values")), get(item, "value")), PyDict(<<>>, <<>>))

MapTxCount(metric)  == Or(Or(get(metric, "count"), get(metric, "totalCount")), PyInt(0))
MapTxAmount(metric) == Or(Or(get(metric, "amount"), get(metric, "totalAmount")), PyFloat(0))

MapTxItemRaises(item) ==
    /\ IsDict(item)
    /\ IsDict(MapTxMetric(item))
    /\ \/ IntRaises(MapTxCount(MapTxMetric(item)))
       \/ FloatRaises(MapTxAmount(MapTxMetric(item)))

\* Lines 293-308: one row per dict item, none for anything else.
MapTxItemRows(item, hdr) ==
    IF ~IsDict(item) THEN <<>>
    ELSE LET name   == Or(Or(Or(get(item, "name"), get(item, "district")), get(item, "state")),
                          PyStr(<<"Unknown">>))
             metric == MapTxMetric(item)
         IN  <<WithDistrict(hdr, name) @@
               [total_tx_count  |-> IF IsDict(metric) THEN PyInt(IntValue(MapTxCount(metric)))
                                    ELSE PyNone,
                total_tx_amount |-> IF IsDict(metric) THEN PyFloat(FloatValue(MapTxAmount(metric)))
                                    ELSE PyNone]>>

MapTransaction(data, hdr) ==
    LET cands == MapTxCandidates(data)
        items == Flatten([c \in 1..Len(cands) |-> cands[c].l])
    IN  IF \E i \in 1..Len(items) : MapTxItemRaises(items[i]) THEN Raised
        ELSE Returned(Flatten([i \in 1..Len(items) |-> MapTxItemRows(items[i], hdr)]))

\* dict.items(), as a sequence of [name, metric] pairs in key order.
DictItems(d) == [i \in 1..Len(d.k) |-> [name |-> PyStr(<<d.k[i]>>), metric |-> d.d[i]]]

MapUserRegistered(metric) == Or(Or(get(metric, "registeredUsers"), get(metric, "registered")), PyInt(0))
MapUserOpens(metric)      == Or(Or(get(metric, "appOpens"), get(metric, "appOpensCount")), PyInt(0))

MapUserPairRaises(pair) ==
    /\ IsDict(pair.metric)
    /\ \/ IntRaises(MapUserRegistered(pair.metric))
       \/ IntRaises(MapUserOpens(pair.metric))

MapUserPairRows(pair, hdr) ==
    IF ~IsDict(pair.metric) THEN <<>>
    ELSE <<WithDistrict(hdr, pair.name) @@
           [registered_users |-> PyInt(IntValue(MapUserRegistered(pair.metric))),
            app_opens        |-> PyInt(IntValue(MapUserOpens(pair.metric)))]>>

\* Lines 312-330.  data.get on a payload that is no dict raises.
MapUser(data, hdr) ==
    IF ~IsDict(data) THEN Raised
    ELSE LET h == Or(get(data, "hoverData"), PyDict(<<>>, <<>>))
             pairs == IF IsDict(h) THEN DictItems(h) ELSE <<>>
         IN  IF \E i \in 1..Len(pairs) : MapUserPairRaises(pairs[i]) THEN Raised
             ELSE Returned(Flatten([i \in 1..Len(pairs) |-> MapUserPairRows(pairs[i], hdr)]))

MapInsPolicies(m) == Or(Or(get(m, "count"), get(m, "policies")), PyInt(0))
MapInsPremium(m)  == Or(Or(get(m, "amount"), get(m, "premium")), PyFloat(0))

\* Lines 341-373: a candidate becomes [name, metric] pairs, from the items of
\* a list (named by name, district or "Unknown") or of a dict (named by key).
MapInsPairs(cand) ==
    IF IsList(cand)
    THEN Flatten([i \in 1..Len(cand.l) |->
                    IF IsDict(cand.l[i])
                    THEN <<[name   |-> Or(Or(get(cand.l[i], "name"), get(cand.l[i], "district")),
                                          PyStr(<<"Unknown">>)),
                            metric |-> cand.l[i]]>>
                    ELSE <<>>])
    ELSE IF IsDict(cand)
    THEN Flatten([i \in 1..Len(cand.k) |->
                    IF IsDict(cand.d[i]) THEN <<DictItems(cand)[i]>> ELSE <<>>])
    ELSE <<>>

\* Lines 335-339.
MapInsCandidates(data) ==
    IF IsDict(data)
    THEN LET keys == <<"hoverDataList", "insurance", "data">>
         IN  Flatten([i \in 1..Len(keys) |->
                        IF HasKey(data, keys[i]) THEN <<get(data, keys[i])>> ELSE <<>>])
    ELSE <<>>

MapInsPairRaises(pair) ==
    \/ IntRaises(MapInsPolicies(pair.metric))
    \/ FloatRaises(MapInsPremium(pair.metric))

MapInsPairRow(pair, hdr) ==
    WithDistrict(hdr, pair.name) @@
    [total_policies |-> PyInt(IntValue(MapInsPolicies(pair.metric))),
     total_premium  |-> PyFloat(FloatValue(MapInsPremium(pair.metric)))]

MapInsurance(data, hdr) ==
    LET cands == MapInsCandidates(data)
        pairs == Flatten([c \in 1..Len(cands) |-> MapInsPairs(cands[c])])
    IN  IF \E i \in 1..Len(pairs) : MapInsPairRaises(pairs[i]) THEN Raised
        ELSE Returned([i \in 1..Len(pairs) |-> MapInsPairRow(pairs[i], hdr)])

parse_map_json(doc, kind, hdr) ==
    LET data == MapData(doc)
    IN  CASE kind = "transaction" -> MapTransaction(data, hdr)
          [] kind = "user"        -> MapUser(data, hdr)
          [] kind = "insurance"   -> MapInsurance(data, hdr)
          [] OTHER                -> Returned(<<>>)

-----------------------------------------------------------------------------
(* parse_top_json, lines 378-456 *)

\* Lines 390-398: every list-valued field of a dict, depth first.
RECURSIVE find_lists(_)
find_lists(d) ==
    IF ~IsDict(d) THEN <<>>
    ELSE Flatten([i \in 1..Len(d.d) |->
                    IF IsList(d.d[i]) THEN <<d.d[i]>>
                    ELSE IF IsDict(d.d[i]) THEN find_lists(d.d[i])
                    ELSE <<>>])

\* Lines 400-402.
TopLists(data) ==
    IF Len(find_lists(data)) = 0 /\ IsList(data) THEN <<data>> ELSE find_lists(data)

TopRank(item) == Or(Or(get(item, "rank"), get(item, "position")), PyInt(0))

\* The two measurements of a row, by kind (lines 412-413, 427-428, 442-443).
TopFirst(item, kind) ==
    CASE kind = "user"        -> Or(Or(get(item, "registeredUsers"), get(item, "count")), PyInt(0))
      [] kind = "transaction" -> Or(Or(get(item, "count"), get(item, "transactions")), PyInt(0))
      [] kind = "insurance"   -> Or(Or(get(item, "count"), get(item, "policies")), PyInt(0))

TopSecond(item, kind) ==
    CASE kind = "user"        -> Or(get(item, "appOpens"), PyInt(0))
      [] kind = "transaction" -> Or(Or(get(item, "amount"), get(item, "value")), PyFloat(0))
      [] kind = "insurance"   -> Or(Or(get(item, "amount"), get(item, "premium")), PyFloat(0))

TopKinds == {"user", "transaction", "insurance"}

TopItemRaises(item, kind) ==
    /\ IsDict(item)
    /\ \/ IntRaises(TopRank(item))
       \/ (kind \in TopKinds /\ (IntRaises(TopFirst(item, kind)) \/ IntRaises(TopSecond(item, kind))))

TopMeasures(item, kind) ==
    CASE kind = "user" ->
            [registered_users |-> PyInt(IntValue(TopFirst(item, kind))),
             app_opens        |-> PyInt(IntValue(TopSecond(item, kind)))]
      [] kind = "transaction" ->
            [total_tx_count  |-> PyInt(IntValue(TopFirst(item, kind))),
             total_tx_amount |-> PyFloat(FloatValue(TopSecond(item, kind)))]
      [] kind = "insurance" ->
            [total_policies |-> PyInt(IntValue(TopFirst(item, kind))),
             total_premium  |-> PyFloat(FloatValue(TopSecond(item, kind)))]

\* Lines 405-455: one row per dict item of a known kind.
TopItemRows(item, kind, hdr) ==
    IF ~IsDict(item) \/ kind \notin TopKinds THEN <<>>
    ELSE <<WithDistrict(hdr, Or(Or(get(item, "name"), get(item, "district")), get(item, "state")))
           @@ [pin_code |-> Or(get(item, "pincode"), get(item, "pin")),
               rank     |-> PyInt(IntValue(TopRank(item)))]
           @@ TopMeasures(item, kind)>>

parse_top_json(doc, kind, hdr) ==
    LET data  == Or(safe_get(doc, <<"data">>), PyDict(<<>>, <<>>))
        lists == TopLists(data)
        items == Flatten([l \in 1..Len(lists) |-> lists[l].l])
    IN  IF \E i \in 1..Len(items) : TopItemRaises(items[i], kind) THEN Raised
        ELSE Returned(Flatten([i \in 1..Len(items) |-> TopItemRows(items[i], kind, hdr)]))

-----------------------------------------------------------------------------
(* Paths as strings: str(p), its order and the substring test *)

\* The atoms of the model's paths in character order ('%' < '-' < '.' < '/'
\* < digits < lower-case letters < the superscript).
AtomOrder ==
    <<"%20", "-wise", ".json", "/",
      "0", "1", "2", "3", "4", "5", "6", "7", "8", "9",
      "\\", "aggregated", "country", "data", "goa", "india", "insurance", "map",
      "nadu", "other", "pulse", "state", "tamil", "top", "transaction", "user", "sup2">>

AtomRanks == [a \in {AtomOrder[i] : i \in 1..Len(AtomOrder)} |-> index(AtomOrder, a)]

AtomRank(a) == AtomRanks[a]

\* str(p): the segments joined by "/".
RECURSIVE Str(_)
Str(parts) ==
    IF Len(parts) = 0 THEN <<>>
    ELSE IF Len(parts) = 1 THEN parts[1]
    ELSE parts[1] \o <<"/">> \o Str(Tail(parts))

\* a < b for two strings: at the first position where they differ a has the
\* smaller character, or a ends there and b does not.
RECURSIVE StrLessFrom(_, _, _)
StrLessFrom(a, b, i) ==
    IF i > Len(b) THEN FALSE
    ELSE IF i > Len(a) THEN TRUE
    ELSE IF a[i] = b[i] THEN StrLessFrom(a, b, i + 1)
    ELSE AtomRank(a[i]) < AtomRank(b[i])

StrLess(a, b) == StrLessFrom(a, b, 1)

PathLess(p, q) == StrLess(Str(p), Str(q))

\* p.replace('\\', '/')
ReplaceBackslash(s) == [i \in 1..Len(s) |-> IF s[i] = "\\" THEN "/" ELSE s[i]]

\* needle in s
Contains(s, needle) ==
    \E i \in 0..(Len(s) - Len(needle)) :
        \A k \in 1..Len(needle) : s[i + k] = needle[k]

\* list.sort(): insertion into an already sorted list.
RECURSIVE InsertSorted(_, _)
InsertSorted(p, sorted) ==
    IF Len(sorted) = 0 THEN <<p>>
    ELSE IF PathLess(p, Head(sorted)) THEN <<p>> \o sorted
    ELSE <<Head(sorted)>> \o InsertSorted(p, Tail(sorted))

\* A discovery that forgets to sort (lines 469-470 dropped).
SortNoOp(list) == list

RECURSIVE sort(_)
sort(list) ==
    IF Len(list) = 0 THEN <<>> ELSE InsertSorted(Head(list), sort(Tail(list)))

-----------------------------------------------------------------------------
(* The source tree *)

Categories == <<"aggregated", "map", "top">>
Kinds      == <<"transaction", "user", "insurance">>

Root == <<<<"pulse">>>>

Year2020 == <<"2", "0", "2", "0">>
Q1File   == <<"1", ".json">>

\* <repo>/data/<category>/<sub>/country/india/2020/1.json
TreePath(category, sub) ==
    Root \o <<<<"data">>, <<category>>, <<sub>>, <<"country">>, <<"india">>, Year2020, Q1File>>

\* The files a tree of the model may hold: one per (category, kind), and one
\* in a folder that is no kind.
PathUniverse ==
    {TreePath(Categories[c], Kinds[k]) : c \in 1..3, k \in 1..3}
        \cup {TreePath("aggregated", "other")}

\* The category folder a path was found under by rglob (line 467).
CategoryOf(p) == p[Len(Root) + 2][1]

\* The folder below the category folder: the kind by the tree's layout.
LayoutKind(p) == p[Len(Root) + 3][1]

-----------------------------------------------------------------------------
(* The documents the files of the model hold *)

S(a)    == PyStr(<<a>>)
Obj1(k1, v1) == PyDict(<<k1>>, <<v1>>)
Obj2(k1, v1, k2, v2) == PyDict(<<k1, k2>>, <<v1, v2>>)
Obj3(k1, v1, k2, v2, k3, v3) == PyDict(<<k1, k2, k3>>, <<v1, v2, v3>>)

\* {}
EmptyDoc == PyDict(<<>>, <<>>)

\* {"data": payload}
DataDoc(payload) == Obj1("data", payload)

Instrument(type, count, amount) == Obj3("type", S(type), "count", count, "amount", amount)

TxEntry(name, instruments) == Obj2("name", S(name), "paymentInstruments", PyList(instruments))

TxEntryTotal == TxEntry("P2P", <<Instrument("TOTAL", PyInt(100), PyFloat(5000)),
                                 Instrument("UPI", PyInt(60), PyFloat(3000))>>)
TxEntrySum   == TxEntry("Recharge", <<Instrument("UPI", PyInt(10), PyFloat(7)),
                                      Instrument("CARD", PyInt(20), PyFloat(5))>>)

AreaEntry  == Obj3("name", S("pune"), "count", PyInt(3), "amount", PyFloat(40))
AreaEntry2 == Obj3("name", S("goa"), "count", PyInt(4), "amount", PyFloat(9))
AreaEntryNonNumeric == Obj3("name", S("pune"), "count", S("abc"), "amount", PyFloat(40))

HoverEntry == Obj2("name", S("pune"), "metric", Obj2("count", PyInt(5), "amount", PyFloat(1200)))
HoverEntryNonNumeric ==
    Obj2("name", S("pune"), "metric", Obj2("count", S("abc"), "amount", PyFloat(1200)))

UserMetric == Obj2("registeredUsers", PyInt(5), "appOpens", PyInt(6))
UserMetricNonNumeric == Obj2("registeredUsers", S("abc"), "appOpens", PyInt(6))

Device(count) == Obj2("brand", S("acme"), "count", count)

\* A string where an object is expected.
WrongTypeEntry == S("oops")

DocVariants == {"empty", "good", "wrongtype", "nonnumeric"}

\* The payload of a file of the given layout and variant: well formed
\* ("good"), with one element of the wrong type beside a well-formed one
\* ("wrongtype"), or with a non-numeric count ("nonnumeric").
Payload(category, kind, variant) ==
    CASE category = "aggregated" /\ kind = "user" ->
            (CASE variant = "good" ->
                    Obj1("usersByDevice", PyList(<<Device(PyInt(10)), Device(PyInt(20))>>))
               [] variant = "wrongtype" ->
                    Obj1("usersByDevice", PyList(<<Device(PyInt(10)), WrongTypeEntry>>))
               [] OTHER ->
                    Obj1("usersByDevice", PyList(<<Device(PyInt(10)), Device(S("abc"))>>)))
      [] category = "aggregated" /\ kind = "insurance" ->
            (CASE variant = "good"      -> Obj1("insurance", PyList(<<AreaEntry, AreaEntry2>>))
               [] variant = "wrongtype" -> Obj1("insurance", PyList(<<AreaEntry, WrongTypeEntry>>))
               [] OTHER -> Obj1("insurance", PyList(<<AreaEntry, AreaEntryNonNumeric>>)))
      [] category = "aggregated" ->
            (CASE variant = "good"      -> Obj1("transactionData", PyList(<<TxEntryTotal, TxEntrySum>>))
               [] variant = "wrongtype" -> Obj1("transactionData", PyList(<<TxEntryTotal, WrongTypeEntry>>))
               [] OTHER ->
                    Obj1("transactionData",
                         PyList(<<TxEntrySum,
                                  TxEntry("P2P", <<Instrument("TOTAL", S("abc"), PyFloat(1))>>)>>)))
      [] category = "map" /\ kind = "transaction" ->
            (CASE variant = "good"      -> Obj1("hoverDataList", PyList(<<HoverEntry>>))
               [] variant = "wrongtype" -> Obj1("hoverDataList", PyList(<<HoverEntry, WrongTypeEntry>>))
               [] OTHER -> Obj1("hoverDataList", PyList(<<HoverEntry, HoverEntryNonNumeric>>)))
      [] category = "map" /\ kind = "user" ->
            (CASE variant = "good"      -> Obj1("hoverData", Obj1("pune", UserMetric))
               [] variant = "wrongtype" -> Obj1("hoverData", Obj2("pune", UserMetric, "goa", WrongTypeEntry))
               [] OTHER -> Obj1("hoverData", Obj2("pune", UserMetric, "goa", UserMetricNonNumeric)))
      [] category = "map" ->
            (CASE variant = "good"      -> Obj1("hoverDataList", PyList(<<AreaEntry>>))
               [] variant = "wrongtype" -> Obj1("hoverDataList", PyList(<<AreaEntry, WrongTypeEntry>>))
               [] OTHER -> Obj1("hoverDataList", PyList(<<AreaEntry, AreaEntryNonNumeric>>)))
      [] OTHER ->
            (CASE variant = "good" ->
                    Obj2("districts", PyList(<<AreaEntry>>), "pincodes", PyList(<<AreaEntry2>>))
               [] variant = "wrongtype" ->
                    Obj1("districts", PyList(<<AreaEntry, WrongTypeEntry>>))
               [] OTHER ->
                    Obj1("districts", PyList(<<AreaEntry, AreaEntryNonNumeric>>)))

Document(category, kind, variant) ==
    IF variant = "empty" THEN EmptyDoc ELSE DataDoc(Payload(category, kind, variant))

\* What a file holds: the encoding under which open+json.load succeeds
\* ("none": it fails under both) and the document it then yields.
Content(enc, variant) == [enc |-> enc, variant |-> variant]

\* The contents a file of a load run may have: unreadable, a document that
\* only latin-1 decodes, and as utf-8 the empty object, a well-formed
\* document and one with a non-numeric count.
Contents ==
    {Content("none", "empty")}
        \cup {Content("utf-8", v) : v \in {"empty", "good", "nonnumeric"}}
        \cup {Content("latin-1", "good")}

DocumentOf(p, content) == Document(CategoryOf(p), LayoutKind(p), content.variant)

-----------------------------------------------------------------------------
(* discover_json_files, lines 459-473 *)

MaxFiles == 3

\* The orders in which rglob may enumerate a set of files.
Enumerations(found) ==
    {o \in [1..Cardinality(found) -> found] : \A a, b \in 1..Cardinality(found) : o[a] = o[b] => a = b}

\* Lines 462-470: per category, nothing for a missing folder, else the
\* enumerated *.json paths, sorted.
discover_json_files(order) ==
    [c \in {Categories[i] : i \in 1..3} |->
        IF c \in dirs
        THEN sort(Flatten([i \in 1..Len(order) |->
                             IF CategoryOf(order[i]) = c THEN <<order[i]>> ELSE <<>>]))
        ELSE <<>>]

-----------------------------------------------------------------------------
(* process_and_load, lines 532-629 *)

NoBatch == [table |-> "none", rows |-> <<>>]

\* df.empty of pd.DataFrame(rows): every row has columns, so the frame is
\* empty exactly when there is no row (lines 549-550 and 521).
DataFrameKeepsEmpty(rows) == FALSE

DataFrameEmpty(rows) == Len(rows) = 0

\* Line 526: bulk_insert returns len(df).
BulkInsertCountsBatch(b) == 1

bulk_insert_result(b) == Len(b.rows)

CurrentFile == files[Categories[cat]][idx]

\* The table each (category, kind) branch inserts into (lines 551, 557, 563,
\* 581, 588, 595, 612, 619, 626).
Table(category, kind) ==
    IF category = "aggregated" THEN "aggregated_" \o kind
    ELSE category \o "_" \o (IF kind = "transaction" THEN "map" ELSE kind)

\* '/<category>/<kind>/' in pp
Matches(pp, category, kind) == Contains(pp, <<"/", category, "/", kind, "/">>)

\* The if/elif chain of a loop body: the first kind whose pattern is in pp.
RouteKind(category, pp) ==
    IF Matches(pp, category, "transaction") THEN "transaction"
    ELSE IF Matches(pp, category, "user") THEN "user"
    ELSE IF Matches(pp, category, "insurance") THEN "insurance"
    ELSE "none"

\* The extractor call of a branch, with `country or 'india'`.
Extract(category, kind, doc, p) ==
    LET ctx == parse_path_context(p)
        hdr == Header(p, Or(ctx.country, S("india")), ctx.state, ctx.district,
                      ctx.year, ctx.quarter)
    IN  IF category = "aggregated"
        THEN CASE kind = "transaction" -> parse_aggregated_transaction(doc, hdr)
               [] kind = "user"        -> parse_aggregated_user(doc, hdr)
               [] kind = "insurance"   -> parse_aggregated_insurance(doc, hdr)
        ELSE IF category = "map"
        THEN parse_map_json(doc, kind, [hdr EXCEPT !.district = PyNone])
        ELSE parse_top_json(doc, kind, [hdr EXCEPT !.district = PyNone])

\* The loop position after the current file: the next file of this loop,
\* else the first file of the next loop that has one, else past the end.
RECURSIVE FirstFileFrom(_)
FirstFileFrom(c) ==
    IF c > 3 THEN [cat |-> 4, idx |-> 1]
    ELSE IF Len(files[Categories[c]]) > 0 THEN [cat |-> c, idx |-> 1]
    ELSE FirstFileFrom(c + 1)

NextPosition ==
    IF idx < Len(files[Categories[cat]]) THEN [cat |-> cat, idx |-> idx + 1]
    ELSE FirstFileFrom(cat + 1)

\* The loop moves on to the next file, or leaves the last loop.
Continue ==
    /\ cat' = NextPosition.cat
    /\ idx' = NextPosition.idx
    /\ pc'  = IF NextPosition.cat > 3 THEN "return" ELSE "open"
    /\ j' = PyNone
    /\ batch' = NoBatch

ReadEvent(p, enc, ok) == [op |-> "read", path |-> p, enc |-> enc, ok |-> ok]
WriteEvent(p, table, n) == [op |-> "write", path |-> p, table |-> table, n |-> n]
RaiseEvent(p, from) == [op |-> "raise", path |-> p, from |-> from]
ExtractEvent(p, n) == [op |-> "extract", path |-> p, n |-> n]

\* Lines 533-534.
Discover ==
    /\ pc = "start"
    /\ \E order \in Enumerations(tree) :
          /\ files' = discover_json_files(order)
          /\ LET first == IF Len(files'["aggregated"]) > 0 THEN 1
                          ELSE IF Len(files'["map"]) > 0 THEN 2
                          ELSE IF Len(files'["top"]) > 0 THEN 3 ELSE 4
             IN  /\ cat' = first
                 /\ pc' = IF first > 3 THEN "return" ELSE "open"
    /\ idx' = 1
    /\ total' = 0
    /\ UNCHANGED <<dirs, tree, fs, j, batch, sink, events, returned, prev>>
    /\ UNCHANGED pathVars
    /\ UNCHANGED callVars

\* Lines 538-540: open(p, encoding='utf-8') and json.load.
OpenUtf8 ==
    /\ pc = "open"
    /\ LET p == CurrentFile
       IN  \E content \in (IF p \in DOMAIN fs THEN {fs[p]} ELSE Contents) :
              /\ fs' = [q \in DOMAIN fs \cup {p} |-> IF q = p THEN content ELSE fs[q]]
              /\ events' = Append(events, ReadEvent(p, "utf-8", content.enc = "utf-8"))
              /\ IF content.enc = "utf-8"
                 THEN /\ j' = DocumentOf(p, content)
                      /\ pc' = "route"
                 ELSE /\ j' = PyNone
                      /\ pc' = "fallback"
    /\ UNCHANGED <<dirs, tree, files, cat, idx, batch, total, sink, returned, prev>>
    /\ UNCHANGED pathVars
    /\ UNCHANGED callVars

\* Lines 541-543: the except clause opens the file again as latin-1; an
\* exception of this second attempt is caught by nothing.
OpenLatin1 ==
    /\ pc = "fallback"
    /\ LET p  == CurrentFile
           ok == fs[p].enc = "latin-1"
       IN  IF ok
           THEN /\ events' = Append(events, ReadEvent(p, "latin-1", TRUE))
                /\ j' = DocumentOf(p, fs[p])
                /\ pc' = "route"
           ELSE /\ events' = Append(events, ReadEvent(p, "latin-1", FALSE))
                                \o <<RaiseEvent(p, "read")>>
                /\ j' = PyNone
                /\ pc' = "error"
    /\ UNCHANGED <<dirs, tree, fs, files, cat, idx, batch, total, sink, returned, prev>>
    /\ UNCHANGED pathVars
    /\ UNCHANGED callVars

\* Lines 544-550 (and 573-580, 605-611): the context, the branch by path
\* substring, the extractor call and the DataFrame; `if not df.empty`.
Route ==
    /\ pc = "route"
    /\ \E kind \in {RouteKind(Categories[cat], ReplaceBackslash(Str(CurrentFile)))} :
          IF kind = "none"
          THEN Continue /\ UNCHANGED events
          ELSE \E res \in {Extract(Categories[cat], kind, j, CurrentFile)} :
                  IF res.raised
                  THEN /\ events' = Append(events, RaiseEvent(CurrentFile, "extractor"))
                       /\ pc' = "error"
                       /\ UNCHANGED <<cat, idx, j, batch>>
                  ELSE IF DataFrameEmpty(res.rows)
                  THEN /\ events' = Append(events, ExtractEvent(CurrentFile, Len(res.rows)))
                       /\ Continue
                  ELSE /\ events' = Append(events, ExtractEvent(CurrentFile, Len(res.rows)))
                       /\ batch' = [table |-> Table(Categories[cat], kind), rows |-> res.rows]
                       /\ pc' = "insert"
                       /\ UNCHANGED <<cat, idx, j>>
    /\ UNCHANGED <<dirs, tree, fs, files, total, sink, returned, prev>>
    /\ UNCHANGED pathVars
    /\ UNCHANGED callVars

\* Lines 520-526 and the `total +=` of the caller: an empty frame returns 0
\* at once; otherwise to_sql appends the rows and bulk_insert returns their
\* number.
InsertOk ==
    /\ pc = "insert"
    /\ IF DataFrameEmpty(batch.rows)
       THEN /\ UNCHANGED <<sink, total, events>>
       ELSE /\ sink' = Append(sink, batch)
            /\ total' = total + bulk_insert_result(batch)
            /\ events' = Append(events, WriteEvent(CurrentFile, batch.table, Len(batch.rows)))
    /\ Continue
    /\ UNCHANGED <<dirs, tree, fs, files, returned, prev>>
    /\ UNCHANGED pathVars
    /\ UNCHANGED callVars

\* A load loop that catches the sink's exception and goes on.
InsertFailSwallowed ==
    /\ pc = "insert"
    /\ events' = Append(events, RaiseEvent(CurrentFile, "bulk_insert"))
    /\ Continue
    /\ UNCHANGED <<dirs, tree, fs, files, total, sink, returned, prev>>
    /\ UNCHANGED pathVars
    /\ UNCHANGED callVars

\* Lines 527-529: to_sql raises; bulk_insert logs and re-raises, and nothing
\* in process_and_load catches it.
InsertFail ==
    /\ pc = "insert"
    /\ events' = Append(events, RaiseEvent(CurrentFile, "bulk_insert"))
    /\ pc' = "error"
    /\ UNCHANGED <<dirs, tree, fs, files, cat, idx, j, batch, total, sink, returned, prev>>
    /\ UNCHANGED pathVars
    /\ UNCHANGED callVars

\* Lines 628-629.
Return ==
    /\ pc = "return"
    /\ returned' = PyInt(total)
    /\ pc' = "done"
    /\ UNCHANGED <<dirs, tree, fs, files, cat, idx, j, batch, total, sink, events, prev>>
    /\ UNCHANGED pathVars
    /\ UNCHANGED callVars

NoFiles == [c \in {Categories[i] : i \in 1..3} |-> <<>>]

NoRun == [ran |-> FALSE, returned |-> 0, sink |-> <<>>]

\* The category folders of a tree: those that hold a file and the empty ones.
FoldersOf(t, empty) == {CategoryOf(p) : p \in t} \cup empty

\* A tree of at most `size` entries, files and empty category folders; a
\* category folder that is neither is missing.
InitTree(size) ==
    /\ tree \in {t \in SUBSET PathUniverse : Cardinality(t) <= size}
    /\ \E empty \in SUBSET {Categories[i] : i \in 1..3} :
          /\ empty \cap {CategoryOf(p) : p \in tree} = {}
          /\ Cardinality(tree) + Cardinality(empty) <= size
          /\ dirs = FoldersOf(tree, empty)

InitRun ==
    /\ InitTree(MaxFiles)
    /\ fs = <<>>
    /\ pc = "start"
    /\ files = NoFiles
    /\ cat = 1
    /\ idx = 1
    /\ j = PyNone
    /\ batch = NoBatch
    /\ total = 0
    /\ sink = <<>>
    /\ events = <<>>
    /\ returned = PyNone
    /\ prev = NoRun

InitPathIdle ==
    /\ ppath = <<>>
    /\ pctx = <<>>

NoCall == [fn |-> "none"]

InitCallIdle ==
    /\ xin = NoCall
    /\ xout = <<>>

Init == InitRun /\ InitPathIdle /\ InitCallIdle

Next ==
    \/ Discover
    \/ OpenUtf8
    \/ OpenLatin1
    \/ Route
    \/ InsertOk
    \/ InsertFail
    \/ Return

Spec == Init /\ [][Next]_vars

-----------------------------------------------------------------------------
(* parse_path_context on arbitrary paths *)

MaxTail == 4

\* What precedes the tail: a repository folder with its data folder, or a
\* path without any data segment (line 480: idx = 0).
PathHeads == {<<<<"pulse">>, <<"data">>>>, <<<<"pulse">>>>}

\* The segments a tail is built from: categories, markers, a name with an
\* encoded space, a year, quarter files, and a digit int() rejects.
PathSegments ==
    {<<"aggregated">>, <<"map">>, <<"country">>, <<"india">>, <<"state">>,
     <<"state", "-wise">>, <<"tamil", "%20", "nadu">>, Year2020,
     Q1File, <<"5", ".json">>, <<"sup2">>}

TailOf(parts) ==
    LET di == index(parts, <<"data">>)
    IN  SubSeq(parts, (IF di > Len(parts) THEN 1 ELSE di) + 1, Len(parts))

PathAppend ==
    /\ pctx = <<>>
    /\ Len(TailOf(ppath)) < MaxTail
    /\ \E seg \in PathSegments : ppath' = Append(ppath, seg)
    /\ UNCHANGED pctx
    /\ UNCHANGED runVars
    /\ UNCHANGED callVars

PathResolve ==
    /\ pctx = <<>>
    /\ pctx' = <<parse_path_context(ppath)>>
    /\ UNCHANGED ppath
    /\ UNCHANGED runVars
    /\ UNCHANGED callVars

InitRunIdle ==
    /\ tree = {}
    /\ dirs = {}
    /\ fs = <<>>
    /\ pc = "idle"
    /\ files = NoFiles
    /\ cat = 1
    /\ idx = 1
    /\ j = PyNone
    /\ batch = NoBatch
    /\ total = 0
    /\ sink = <<>>
    /\ events = <<>>
    /\ returned = PyNone
    /\ prev = NoRun

\* The two places of an aggregated file in the repository the loader reads:
\* the country's totals, and a state's totals below them.
PulseLayouts ==
    {<<<<"pulse">>, <<"data">>, <<"aggregated">>, <<"transaction">>, <<"country">>, <<"india">>,
       Year2020, Q1File>>,
     <<<<"pulse">>, <<"data">>, <<"aggregated">>, <<"transaction">>, <<"country">>, <<"india">>,
       <<"state">>, <<"tamil", "%20", "nadu">>, Year2020, Q1File>>}

InitPath ==
    /\ InitRunIdle
    /\ ppath \in PathHeads \cup PulseLayouts
    /\ pctx = <<>>
    /\ InitCallIdle

NextPath == PathAppend \/ PathResolve

SpecPath == InitPath /\ [][NextPath]_vars

-----------------------------------------------------------------------------
(* C10 *)

\* The paths whose branch of parse_path_context derives year and quarter:
\* an aggregated tail with a country or state marker, any other tail with
\* the country and india markers.
DerivesYearQuarter(tail) ==
    /\ Len(tail) >= 4
    /\ IF tail[1] = <<"aggregated">>
       THEN In(<<"country">>, tail) \/ In(<<"state">>, tail)
       ELSE In(<<"country">>, tail) /\ In(<<"india">>, tail)

ExpectedYear(tail) ==
    IF IsDecimal(tail[Len(tail) - 1]) THEN PyInt(DecimalValue(tail[Len(tail) - 1])) ELSE PyNone

ExpectedQuarter(tail) ==
    IF IsDecimal(stem(tail[Len(tail)])) THEN PyInt(DecimalValue(stem(tail[Len(tail)]))) ELSE PyNone

\* C10: parse_path_context returns for every path, and each signal fails on
\* its own: whenever the path's branch derives year and quarter, the year is
\* the second-to-last segment if that is purely numeric (else null) and the
\* quarter is the file name's stem if that is purely numeric (else null),
\* whether or not the segment after a country/state/state-wise marker is
\* missing and whether or not the other of the two is numeric.
C10_SignalsIndependent ==
    (pctx # <<>> /\ DerivesYearQuarter(TailOf(ppath))) =>
        /\ pctx[1].year = ExpectedYear(TailOf(ppath))
        /\ pctx[1].quarter = ExpectedQuarter(TailOf(ppath))

-----------------------------------------------------------------------------
(* A second clean run over the same tree *)

\* main() is run again after a completed run, on an emptied destination:
\* the tree and its files are what they were.
Rerun ==
    /\ pc = "done"
    /\ ~prev.ran
    /\ prev' = [ran |-> TRUE, returned |-> returned.i, sink |-> sink]
    /\ pc' = "start"
    /\ files' = NoFiles
    /\ cat' = 1
    /\ idx' = 1
    /\ j' = PyNone
    /\ batch' = NoBatch
    /\ total' = 0
    /\ sink' = <<>>
    /\ events' = <<>>
    /\ returned' = PyNone
    /\ UNCHANGED <<dirs, tree, fs>>
    /\ UNCHANGED pathVars
    /\ UNCHANGED callVars

MaxRerunFiles == 2

InitRerun ==
    /\ InitTree(MaxRerunFiles)
    /\ fs = <<>>
    /\ pc = "start"
    /\ files = NoFiles
    /\ cat = 1
    /\ idx = 1
    /\ j = PyNone
    /\ batch = NoBatch
    /\ total = 0
    /\ sink = <<>>
    /\ events = <<>>
    /\ returned = PyNone
    /\ prev = NoRun
    /\ InitPathIdle
    /\ InitCallIdle

NextRerun == Next \/ Rerun

SpecRerun == InitRerun /\ [][NextRerun]_vars

-----------------------------------------------------------------------------
(* What the run's history shows *)

EventIndexes == 1..Len(events)

Reads(p, enc) == {i \in EventIndexes : events[i].op = "read" /\ events[i].path = p /\ events[i].enc = enc}

Writes(p) == {i \in EventIndexes : events[i].op = "write" /\ events[i].path = p}

Raises(from) == {i \in EventIndexes : events[i].op = "raise" /\ events[i].from = from}

RaisesAt(p) == {i \in EventIndexes : events[i].op = "raise" /\ events[i].path = p}

\* The files the run has opened: a file's content is fixed when the run
\* first opens it.
Opened == DOMAIN fs

\* The file the run is working on, if any.
Busy(p) == pc \in {"open", "fallback", "route", "insert"} /\ cat <= 3 /\ CurrentFile = p

\* The run has a file after the current one still to read.
HasLaterFile == cat <= 3 /\ NextPosition.cat <= 3

RECURSIVE RowsIn(_)
RowsIn(batches) ==
    IF Len(batches) = 0 THEN 0 ELSE Len(Head(batches).rows) + RowsIn(Tail(batches))

RECURSIVE WrittenRows(_)
WrittenRows(i) ==
    IF i = 0 THEN 0
    ELSE (IF events[i].op = "write" THEN events[i].n ELSE 0) + WrittenRows(i - 1)

-----------------------------------------------------------------------------
(* C1 *)

\* C1: a file whose utf-8 read fails gets exactly one latin-1 attempt, and
\* when that fails too the run does not abort: no exception of a read leaves
\* process_and_load, so the files after it are still read.
C1_ReadFailureSkipsFile ==
    /\ \A p \in Opened :
          /\ Cardinality(Reads(p, "utf-8")) = 1
          /\ Cardinality(Reads(p, "latin-1")) <= 1
          /\ (\E i \in Reads(p, "utf-8") : ~events[i].ok) /\ ~(pc = "fallback" /\ Busy(p))
                => Cardinality(Reads(p, "latin-1")) = 1
    /\ Raises("read") = {}

-----------------------------------------------------------------------------
(* C2 *)

SinkRaised == Raises("bulk_insert") # {}

\* C2: when bulk_insert raises, process_and_load ends in an error and
\* returns nothing, the exception is the last thing that happens (no later
\* file is read or written), and the sink keeps exactly the batches written
\* before: the failing step and everything after it leave sink and total as
\* they were.
C2_SinkFailurePropagates ==
    /\ [](SinkRaised => /\ pc = "error"
                        /\ returned = PyNone
                        /\ Raises("bulk_insert") = {Len(events)})
    /\ [][SinkRaised' => (sink' = sink /\ total' = total)]_vars
    /\ [][~SinkRaised]_vars

\* A sink failure after one batch was written, with a file still unread.
C2_Witness == SinkRaised /\ Len(sink) >= 1 /\ HasLaterFile

-----------------------------------------------------------------------------
(* C3 *)

\* The file lies under one of the nine (category, kind) folders.
Routed(p) == LayoutKind(p) \in {Kinds[k] : k \in 1..3}

\* The extractor of the file's branch returned no row.
YieldsNoRows(p) == \E i \in EventIndexes : events[i] = ExtractEvent(p, 0)

\* C3: bulk_insert is never handed an empty batch and the sink never holds
\* one; a file whose extractor gives zero rows causes no write and no error.
C3_NoEmptyBatch ==
    /\ pc = "insert" => Len(batch.rows) > 0
    /\ \A k \in 1..Len(sink) : Len(sink[k].rows) > 0
    /\ \A i \in EventIndexes : events[i].op = "write" => events[i].n > 0
    /\ \A p \in Opened : YieldsNoRows(p) => (Writes(p) = {} /\ RaisesAt(p) = {})

\* A file that gave zero rows was passed over and a later file was written.
C3_Witness ==
    \E p \in Opened : /\ YieldsNoRows(p)
                      /\ ~Busy(p)
                      /\ \E i \in EventIndexes : events[i].op = "write"

-----------------------------------------------------------------------------
(* C4 *)

\* C4: the running total is the number of rows in the batches written so
\* far, from 0 on; a step changes it only by appending one batch to the
\* sink, and then by that batch's size; the value returned is the number of
\* rows the run appended.
C4_TotalCountsWrittenRows ==
    /\ [](/\ total = RowsIn(sink)
          /\ total = WrittenRows(Len(events))
          /\ (pc = "start" => total = 0)
          /\ (pc = "done" => returned = PyInt(RowsIn(sink)))
          /\ (pc # "done" => returned = PyNone))
    /\ [][/\ total' >= total
          /\ (total' # total =>
                /\ Len(sink') = Len(sink) + 1
                /\ SubSeq(sink', 1, Len(sink)) = sink
                /\ total' = total + Len(sink'[Len(sink')].rows))]_vars

\* A finished run that wrote two batches, one of them of more than one row.
C4_Witness ==
    /\ pc = "done"
    /\ Len(sink) >= 2
    /\ returned.i > Len(sink)

-----------------------------------------------------------------------------
(* C5 *)

\* The destination tables as the routing contract names them.
DestinationTable(category, kind) ==
    CASE category = "aggregated" /\ kind = "transaction" -> "aggregated_transaction"
      [] category = "aggregated" /\ kind = "user"        -> "aggregated_user"
      [] category = "aggregated" /\ kind = "insurance"   -> "aggregated_insurance"
      [] category = "map" /\ kind = "transaction"        -> "map_map"
      [] category = "map" /\ kind = "user"               -> "map_user"
      [] category = "map" /\ kind = "insurance"          -> "map_insurance"
      [] category = "top" /\ kind = "transaction"        -> "top_map"
      [] category = "top" /\ kind = "user"               -> "top_user"
      [] category = "top" /\ kind = "insurance"          -> "top_insurance"
      [] OTHER                                           -> "none"

WriteIndexes == {i \in EventIndexes : events[i].op = "write"}

\* The position in the sink of the batch a write event appended.
BatchOf(i) == Cardinality({k \in WriteIndexes : k <= i})

\* C5: a file causes at most one sink write; the write goes to the table of
\* the file's category folder and kind folder, and every row of it carries
\* that file's source_path; a file under no kind folder causes no write, no
\* error and no change of the total.
C5_OneTablePerFile ==
    /\ Len(sink) = Cardinality(WriteIndexes)
    /\ \A p \in Opened : Cardinality(Writes(p)) <= 1
    /\ \A i \in WriteIndexes :
          LET p == events[i].path
              b == sink[BatchOf(i)]
          IN  /\ events[i].table = DestinationTable(CategoryOf(p), LayoutKind(p))
              /\ b.table = events[i].table
              /\ \A r \in 1..Len(b.rows) : b.rows[r].source_path = p
    /\ \A p \in Opened :
          DestinationTable(CategoryOf(p), LayoutKind(p)) = "none"
              => /\ Writes(p) = {}
                 /\ RaisesAt(p) = {}
                 /\ (Busy(p) => total = WrittenRows(Len(events)))

-----------------------------------------------------------------------------
(* C6 *)

CategoryIndex(p) == index(Categories, CategoryOf(p))

\* C6: what the run does, it does file by file in sorted path order: of two
\* events on different files the earlier is on the path that sorts first,
\* so the aggregated files come before the map files and these before the
\* top files; discovery gives a missing category folder no files and the
\* run goes on.  (The history only grows, so comparing every event with the
\* latest one in every state compares every two events.)
C6_SortedPathOrder ==
    /\ Len(events) > 0 =>
          \A p \in {events[i].path : i \in EventIndexes} \ {events[Len(events)].path} :
              /\ PathLess(p, events[Len(events)].path)
              /\ CategoryIndex(p) <= CategoryIndex(events[Len(events)].path)
    /\ pc # "start" =>
          \A c \in 1..3 :
              /\ Categories[c] \notin dirs => files[Categories[c]] = <<>>
              /\ \A a, b \in 1..Len(files[Categories[c]]) :
                    a < b => PathLess(files[Categories[c]][a], files[Categories[c]][b])
    /\ pc = "done" => Opened = {p \in tree : CategoryOf(p) \in dirs}

\* A finished run over a tree without its map folder that read two files of
\* one category and a file of another.
C6_Witness ==
    /\ pc = "done"
    /\ "map" \notin dirs
    /\ Cardinality(Opened) >= 3
    /\ Len(files["aggregated"]) >= 2

-----------------------------------------------------------------------------
(* C7 *)

Malformed(p) == p \in DOMAIN fs /\ fs[p].enc # "none" /\ fs[p].variant \in {"wrongtype", "nonnumeric"}

\* C7: a malformed entry of a document is skipped by every extractor: no
\* exception leaves the extractor, the well-formed entry of the same
\* document still gives its row (the file is written), and the run goes on.
C7_MalformedEntrySkipped ==
    /\ Raises("extractor") = {}
    /\ \A p \in Opened :
          (Malformed(p) /\ Routed(p) /\ ~Busy(p)) => Writes(p) # {}

-----------------------------------------------------------------------------
(* C8 *)

HoldsEmptyObject(p) == p \in DOMAIN fs /\ fs[p].enc # "none" /\ fs[p].variant = "empty"

\* C8: a file whose document is {} gives zero rows and no exception whatever
\* its (category, kind), is not written to the sink, and does not stop the
\* run: once its extractor has returned the run is at the next file or at
\* its end.
C8_EmptyObjectYieldsNothing ==
    \A p \in Opened :
        HoldsEmptyObject(p) =>
            /\ Writes(p) = {}
            /\ RaisesAt(p) = {}
            /\ \A i \in EventIndexes :
                  (events[i].op = "extract" /\ events[i].path = p) => events[i].n = 0
            /\ (pc \in {"insert", "error"} /\ cat <= 3) => CurrentFile # p
            /\ (Routed(p) /\ ~Busy(p)) => YieldsNoRows(p)

\* A finished run in which a map/user file holding {} was passed over and a
\* later file was read.
C8_Witness ==
    /\ pc = "done"
    /\ \E p \in Opened :
          /\ HoldsEmptyObject(p)
          /\ CategoryOf(p) = "map" /\ LayoutKind(p) = "user"
          /\ YieldsNoRows(p)
          /\ \E q \in Opened : PathLess(p, q)

-----------------------------------------------------------------------------
(* C9 *)

\* C9: a second complete run over the same tree, from an empty destination,
\* returns the same total and makes the same sink writes in the same order
\* (so every table gets the same number of rows).
C9_SecondRunSame ==
    (prev.ran /\ pc = "done") =>
        /\ returned = PyInt(prev.returned)
        /\ sink = prev.sink

\* Two complete runs that each wrote two files of one category.
C9_Witness ==
    /\ prev.ran
    /\ pc = "done"
    /\ \E i, k \in WriteIndexes :
          /\ i < k
          /\ CategoryOf(events[i].path) = CategoryOf(events[k].path)

-----------------------------------------------------------------------------
(* C11 *)

Quarters == {PyInt(q) : q \in 1..4}

\* C11: the quarter parse_path_context returns is 1, 2, 3 or 4, or null: a
\* numeric file name stem outside that range gives null.
C11_QuarterInRange ==
    pctx # <<>> => pctx[1].quarter \in Quarters \cup {PyNone}

-----------------------------------------------------------------------------
(* C14 *)

\* A resolved path under data/aggregated whose tail has the country marker.
AggregatedCountryPath ==
    /\ pctx # <<>>
    /\ In(<<"data">>, ppath)
    /\ Len(TailOf(ppath)) >= 1
    /\ TailOf(ppath)[1] = <<"aggregated">>
    /\ In(<<"country">>, TailOf(ppath))

\* The segment after the first occurrence of a marker, if there is one.
Following(tail, marker) ==
    IF In(marker, tail) /\ index(tail, marker) < Len(tail)
    THEN <<tail[index(tail, marker) + 1]>>
    ELSE <<>>

\* C14 as stated: on a path under data/aggregated whose tail has the country
\* marker, the country is the segment after the marker and state and district
\* are null; the district is null for every path.
C14_CountryPathHasNoState ==
    /\ pctx # <<>> => pctx[1].district = PyNone
    /\ AggregatedCountryPath =>
          /\ Following(TailOf(ppath), <<"country">>) # <<>>
          /\ pctx[1].country = PyStr(Following(TailOf(ppath), <<"country">>)[1])
          /\ pctx[1].state = PyNone

\* C14, amended: on a path under data/aggregated whose tail has at least four
\* segments and a country marker with a segment after it, the country is the
\* segment after the first country marker; the state is the segment after the
\* first state marker, %20 decoded, if the tail has a state marker with a
\* segment after it, and null otherwise; the district is null for every path.
C14_CountryAndState ==
    /\ pctx # <<>> => pctx[1].district = PyNone
    /\ (/\ AggregatedCountryPath
        /\ Len(TailOf(ppath)) >= 4
        /\ Following(TailOf(ppath), <<"country">>) # <<>>) =>
          /\ pctx[1].country = PyStr(Following(TailOf(ppath), <<"country">>)[1])
          /\ pctx[1].state =
                (IF Following(TailOf(ppath), <<"state">>) = <<>> THEN PyNone
                 ELSE PyStr(ReplacePct20(Following(TailOf(ppath), <<"state">>)[1])))

\* A state's file below the country folder has been resolved: both the
\* country and the state are set.
C14_Witness ==
    /\ AggregatedCountryPath
    /\ TailOf(ppath) = <<<<"aggregated">>, <<"transaction">>, <<"country">>, <<"india">>,
                         <<"state">>, <<"tamil", "%20", "nadu">>, Year2020, Q1File>>
    /\ pctx[1].country = S("india")
    /\ pctx[1].state = PyStr(<<"tamil", " ", "nadu">>)
    /\ pctx[1].district = PyNone

-----------------------------------------------------------------------------
(* The extractors on arbitrary documents *)

MaxEntries == 2
MaxInstruments == 2

\* The sequences of at most n elements of a set.
SeqsUpTo(set, n) == UNION {[1..m -> set] : m \in 0..n}

Call(fn, kind, doc) == [fn |-> fn, kind |-> kind, doc |-> doc]

\* The context columns process_and_load passes for
\* <repo>/data/<category>/<kind>/country/india/2020/1.json.
CallHeader == Header(<<"p">>, S("india"), PyNone, PyNone, PyInt(2020), PyInt(1))

\* paymentInstruments elements: a TOTAL with both values and one without a
\* count, instruments with and without an amount, and counts that are an
\* empty string or no number.
InstrumentSet ==
    {Instrument("TOTAL", PyInt(100), PyFloat(5000)),
     Obj2("type", S("TOTAL"), "amount", PyFloat(9)),
     Instrument("UPI", PyInt(10), PyFloat(7)),
     Obj2("type", S("CARD"), "count", PyInt(20)),
     Instrument("UPI", PyStr(<<>>), PyFloat(3)),
     Instrument("UPI", S("abc"), PyFloat(1))}

\* transactionData entries: any instrument list, no instrument list at all,
\* and an element that is no object.
TxEntrySet ==
    {TxEntry("P2P", insts) : insts \in SeqsUpTo(InstrumentSet, MaxInstruments)}
        \cup {Obj1("name", S("P2P")), WrongTypeEntry}

\* Documents of aggregated/transaction: well-formed entries followed by one
\* entry of any shape, and {}.
AggTxDocs ==
    {DataDoc(Obj1("transactionData", PyList(Append(before, last)))) :
        before \in SeqsUpTo({TxEntryTotal, TxEntrySum}, MaxEntries - 1), last \in TxEntrySet}
        \cup {EmptyDoc}

AggTxCalls == {Call("parse_aggregated_transaction", "transaction", doc) : doc \in AggTxDocs}

CallAggregatedTransaction ==
    /\ xout = <<>>
    /\ xin.fn = "parse_aggregated_transaction"
    /\ xout' = <<parse_aggregated_transaction(xin.doc, CallHeader)>>
    /\ UNCHANGED xin
    /\ UNCHANGED runVars
    /\ UNCHANGED pathVars

MaxDevices == 2

\* A member a JSON object does not have.
Absent == [t |-> "absent"]

\* The JSON object with the given <<key, value>> members, the Absent ones
\* left out.
RECURSIVE ObjOf(_)
ObjOf(pairs) ==
    IF Len(pairs) = 0 THEN PyDict(<<>>, <<>>)
    ELSE LET rest == ObjOf(Tail(pairs))
         IN  IF Head(pairs)[2] = Absent THEN rest
             ELSE PyDict(<<Head(pairs)[1]>> \o rest.k, <<Head(pairs)[2]>> \o rest.d)

\* usersByDevice records: counted under "count" or under "registeredUsers",
\* with a count that is no number, and an element that is no object.
DeviceSet ==
    {Device(PyInt(10)), Device(PyInt(20)),
     Obj2("registeredUsers", PyInt(3), "appOpens", PyInt(4)),
     Device(S("abc")), WrongTypeEntry}

\* Documents of aggregated/user: every combination of the top-level totals
\* (with or without a device list beside them), every device list, a
\* payload that is no object, and {}.
AggUserDocs ==
    {DataDoc(ObjOf(<<<<"registeredUsers", r>>, <<"appOpens", o>>, <<"activeUsers", a>>,
                     <<"usersByDevice", d>>>>)) :
        r \in {Absent, PyInt(500), S("abc")}, o \in {Absent, PyInt(6)},
        a \in {Absent, PyInt(7), PyNone}, d \in {Absent, PyList(<<Device(PyInt(10))>>)}}
        \cup {DataDoc(Obj1("usersByDevice", PyList(devices))) :
                devices \in SeqsUpTo(DeviceSet, MaxDevices)}
        \cup {DataDoc(PyList(<<Device(PyInt(10))>>)), EmptyDoc}

AggUserCalls == {Call("parse_aggregated_user", "user", doc) : doc \in AggUserDocs}

CallAggregatedUser ==
    /\ xout = <<>>
    /\ xin.fn = "parse_aggregated_user"
    /\ xout' = <<parse_aggregated_user(xin.doc, CallHeader)>>
    /\ UNCHANGED xin
    /\ UNCHANGED runVars
    /\ UNCHANGED pathVars

MaxHover == 2

\* hoverDataList entries: a full metric, no metric at all, an empty metric,
\* a null one, a metric without amount, one with an empty count, one under
\* the alias keys, and a metric that is no object.
HoverSet ==
    {HoverEntry,
     Obj1("name", S("pune")),
     Obj2("name", S("pune"), "metric", PyDict(<<>>, <<>>)),
     Obj2("name", S("pune"), "metric", PyNone),
     Obj2("name", S("pune"), "metric", Obj1("count", PyInt(5))),
     Obj2("name", S("pune"), "metric", Obj2("count", PyStr(<<>>), "amount", PyFloat(1200))),
     Obj2("name", S("pune"), "values", Obj2("totalCount", PyInt(8), "totalAmount", PyFloat(30))),
     Obj2("name", S("pune"), "metric", S("n/a"))}

MapTxDocs ==
    {DataDoc(Obj1("hoverDataList", PyList(entries))) : entries \in SeqsUpTo(HoverSet, MaxHover)}
        \cup {EmptyDoc}

MapTxCalls == {Call("parse_map_json", "transaction", doc) : doc \in MapTxDocs}

CallMap ==
    /\ xout = <<>>
    /\ xin.fn = "parse_map_json"
    /\ xout' = <<parse_map_json(xin.doc, xin.kind, CallHeader)>>
    /\ UNCHANGED xin
    /\ UNCHANGED runVars
    /\ UNCHANGED pathVars

MaxTopItems == 2

\* A ranked entry with every field.
TopItem(name, rank) ==
    PyDict(<<"name", "rank", "pincode", "count", "amount">>,
           <<S(name), PyInt(rank), S("411001"), PyInt(3), PyFloat(40)>>)

\* Ranked entries: complete, ranked under the alias key, without rank and
\* pin code, with a rank that is no number, and an element that is no object.
TopItemSet ==
    {TopItem("pune", 1),
     Obj2("name", S("goa"), "position", PyInt(2)),
     Obj2("name", S("agra"), "count", PyInt(4)),
     Obj2("name", S("pune"), "rank", S("abc")),
     WrongTypeEntry}

\* Payloads of a top document: one ranked list, several lists side by side,
\* a list one object deeper, a list inside an element of a list, and a
\* payload that is itself a list.
TopPayloads ==
    {Obj1("districts", PyList(items)) : items \in SeqsUpTo(TopItemSet, MaxTopItems)}
        \cup {Obj3("states", PyNone, "districts", PyList(<<TopItem("pune", 1)>>),
                    "pincodes", PyList(<<TopItem("goa", 2)>>)),
              Obj1("top", Obj1("districts", PyList(<<TopItem("pune", 1)>>))),
              Obj1("groups", PyList(<<Obj1("districts", PyList(<<TopItem("pune", 1)>>))>>)),
              PyList(<<TopItem("pune", 1)>>)}

TopDocs == {DataDoc(payload) : payload \in TopPayloads} \cup {EmptyDoc}

TopCalls == {Call("parse_top_json", kind, doc) : kind \in TopKinds, doc \in TopDocs}

CallTop ==
    /\ xout = <<>>
    /\ xin.fn = "parse_top_json"
    /\ xout' = <<parse_top_json(xin.doc, xin.kind, CallHeader)>>
    /\ UNCHANGED xin
    /\ UNCHANGED runVars
    /\ UNCHANGED pathVars

Calls == AggTxCalls \cup AggUserCalls \cup MapTxCalls \cup TopCalls

InitCall ==
    /\ InitRunIdle
    /\ InitPathIdle
    /\ xin \in Calls
    /\ xout = <<>>

NextCall ==
    \/ CallAggregatedTransaction
    \/ CallAggregatedUser
    \/ CallMap
    \/ CallTop

SpecCall == InitCall /\ [][NextCall]_vars

-----------------------------------------------------------------------------
(* C12 *)

\* The call of the given extractor has returned or raised.
Called(fn) == xin.fn = fn /\ xout # <<>>

\* The entries of data.transactionData of the call's document.
TxEntriesOf(doc) ==
    IF IsList(safe_get(doc, <<"data", "transactionData">>))
    THEN safe_get(doc, <<"data", "transactionData">>).l ELSE <<>>

InstrumentsOf(entry) ==
    IF IsList(get(entry, "paymentInstruments")) THEN get(entry, "paymentInstruments").l ELSE <<>>

IsTotal(inst) == get(inst, "type") = S("TOTAL")

HasTotal(entry) == \E i \in 1..Len(InstrumentsOf(entry)) : IsTotal(InstrumentsOf(entry)[i])

FirstTotal(entry) ==
    InstrumentsOf(entry)[CHOOSE i \in 1..Len(InstrumentsOf(entry)) :
        /\ IsTotal(InstrumentsOf(entry)[i])
        /\ \A k \in 1..(i - 1) : ~IsTotal(InstrumentsOf(entry)[k])]

IsNumber(v) == v.t \in {"int", "float"}

NumberOf(v) == IF v.t = "int" THEN v.i ELSE v.f

\* A value counted as 0 when it is missing.
NumberOr0(v) == IF IsNumber(v) THEN NumberOf(v) ELSE 0

SumOfInstruments(entry, key) ==
    Sum([i \in 1..Len(InstrumentsOf(entry)) |-> NumberOr0(get(InstrumentsOf(entry)[i], key))])

\* The count or amount the row of an entry is to carry: the TOTAL
\* instrument's own value if there is a TOTAL instrument, else the sum over
\* the instruments.
DirectOrSum(entry, key) ==
    IF HasTotal(entry)
    THEN (IF IsNumber(get(FirstTotal(entry), key))
          THEN <<NumberOf(get(FirstTotal(entry), key))>> ELSE <<>>)
    ELSE <<SumOfInstruments(entry, key)>>

\* C12: parse_aggregated_transaction gives one row per entry of
\* data.transactionData, in entry order; the row's count and amount are the
\* TOTAL instrument's own when the entry has one, and otherwise the sums of
\* the instruments' counts and amounts, a missing one counting as 0.
C12_TotalOrSum ==
    Called("parse_aggregated_transaction") =>
        /\ ~xout[1].raised
        /\ Len(xout[1].rows) = Len(TxEntriesOf(xin.doc))
        /\ \A i \in 1..Len(xout[1].rows) :
              LET row   == xout[1].rows[i]
                  entry == TxEntriesOf(xin.doc)[i]
              IN  /\ row.transaction_type = get(entry, "name")
                  /\ row.transaction_count =
                        (IF DirectOrSum(entry, "count") = <<>> THEN PyNone
                         ELSE PyInt(DirectOrSum(entry, "count")[1]))
                  /\ row.transaction_amount =
                        (IF DirectOrSum(entry, "amount") = <<>> THEN PyNone
                         ELSE PyFloat(DirectOrSum(entry, "amount")[1]))

-----------------------------------------------------------------------------
(* C13 *)

\* The data payload of the call's document, {} if it has none.
PayloadOf(doc) == IF HasKey(doc, "data") THEN get(doc, "data") ELSE PyDict(<<>>, <<>>)

CarriesTotals(data) ==
    IsDict(data) /\ \E key \in {"registeredUsers", "appOpens", "activeUsers"} : HasKey(data, key)

DevicesOf(data) ==
    IF IsDict(data) /\ IsList(get(data, "usersByDevice")) THEN get(data, "usersByDevice").l ELSE <<>>

\* The first of two members that is a number, 0 if neither is.
EitherOr0(obj, key1, key2) ==
    IF IsNumber(get(obj, key1)) /\ NumberOf(get(obj, key1)) # 0 THEN NumberOf(get(obj, key1))
    ELSE NumberOr0(get(obj, key2))

\* C13: parse_aggregated_user gives at most one row.  A payload with any of
\* the top-level totals gives exactly one row with those values, active_users
\* null when activeUsers is absent; otherwise a non-empty device list gives
\* exactly one row with the sums over the devices and active_users null;
\* otherwise there is no row.
C13_TotalsOrDevices ==
    Called("parse_aggregated_user") =>
        LET data == PayloadOf(xin.doc)
            rows == xout[1].rows
        IN  /\ ~xout[1].raised
            /\ Len(rows) <= 1
            /\ IF CarriesTotals(data)
               THEN /\ Len(rows) = 1
                    /\ rows[1].registered_users = PyInt(NumberOr0(get(data, "registeredUsers")))
                    /\ rows[1].app_opens = PyInt(NumberOr0(get(data, "appOpens")))
                    /\ rows[1].active_users =
                          (IF IsNumber(get(data, "activeUsers"))
                           THEN PyInt(NumberOf(get(data, "activeUsers"))) ELSE PyNone)
               ELSE IF Len(DevicesOf(data)) > 0
               THEN /\ Len(rows) = 1
                    /\ rows[1].registered_users =
                          PyInt(Sum([i \in 1..Len(DevicesOf(data)) |->
                                        EitherOr0(DevicesOf(data)[i], "registeredUsers", "count")]))
                    /\ rows[1].app_opens =
                          PyInt(Sum([i \in 1..Len(DevicesOf(data)) |->
                                        EitherOr0(DevicesOf(data)[i], "appOpens", "appOpensCount")]))
                    /\ rows[1].active_users = PyNone
               ELSE Len(rows) = 0

-----------------------------------------------------------------------------
(* C15 *)

\* A value that is missing (the key absent or null) or empty.
MissingOrEmpty(v) == v = PyNone \/ v = PyStr(<<>>)

HoverEntriesOf(doc) ==
    LET data == PayloadOf(doc)
    IN  IF IsDict(data) /\ IsList(get(data, "hoverDataList")) THEN get(data, "hoverDataList").l
        ELSE <<>>

\* The call returned one row per entry of the document.
RowPerEntry(entries) == ~xout[1].raised /\ Len(xout[1].rows) = Len(entries)

\* C15, aggregated transaction: an entry without a paymentInstruments list
\* gives null count and amount; an entry with the list in which no instrument
\* carries the value (missing or empty in each) gives 0.
C15_AggregatedTransaction ==
    (Called("parse_aggregated_transaction") /\ RowPerEntry(TxEntriesOf(xin.doc))) =>
        \A i \in 1..Len(xout[1].rows) :
            LET entry == TxEntriesOf(xin.doc)[i]
                row   == xout[1].rows[i]
            IN  IF ~HasKey(entry, "paymentInstruments")
                THEN row.transaction_count = PyNone /\ row.transaction_amount = PyNone
                ELSE /\ (\A k \in 1..Len(InstrumentsOf(entry)) :
                            MissingOrEmpty(get(InstrumentsOf(entry)[k], "count")))
                        => row.transaction_count = PyInt(0)
                     /\ (\A k \in 1..Len(InstrumentsOf(entry)) :
                            MissingOrEmpty(get(InstrumentsOf(entry)[k], "amount")))
                        => row.transaction_amount = PyFloat(0)

\* C15, map transaction: a hover entry without a metric object gives null
\* count and amount; an entry whose metric object lacks a value, or holds an
\* empty one, gives 0 for it.
C15_MapTransaction ==
    (Called("parse_map_json") /\ xin.kind = "transaction" /\ RowPerEntry(HoverEntriesOf(xin.doc))) =>
        \A i \in 1..Len(xout[1].rows) :
            LET entry == HoverEntriesOf(xin.doc)[i]
                row   == xout[1].rows[i]
            IN  IF ~HasKey(entry, "metric") /\ ~HasKey(entry, "values") /\ ~HasKey(entry, "value")
                THEN row.total_tx_count = PyNone /\ row.total_tx_amount = PyNone
                ELSE IsDict(get(entry, "metric")) =>
                        /\ (MissingOrEmpty(get(get(entry, "metric"), "count"))
                             /\ MissingOrEmpty(get(get(entry, "metric"), "totalCount")))
                            => row.total_tx_count = PyInt(0)
                        /\ (MissingOrEmpty(get(get(entry, "metric"), "amount"))
                             /\ MissingOrEmpty(get(get(entry, "metric"), "totalAmount")))
                            => row.total_tx_amount = PyFloat(0)

\* C15: the zero-versus-null policy of the extractors: a value missing or
\* empty in a measurement group that is present is emitted as 0, and the
\* count and amount of an entry whose measurement group is absent (no
\* paymentInstruments list, no metric object) are emitted as null, never 0.
C15_ZeroVersusNull == C15_AggregatedTransaction /\ C15_MapTransaction

-----------------------------------------------------------------------------
(* C16 *)

\* Every list-valued field at any depth of a JSON value, depth first: the
\* lists that are members of objects, those inside nested objects, and those
\* inside the elements of the lists found.
RECURSIVE ListsAtAnyDepth(_)
ListsAtAnyDepth(v) ==
    IF IsDict(v)
    THEN Flatten([i \in 1..Len(v.d) |->
                    IF IsList(v.d[i]) THEN <<v.d[i]>> \o ListsAtAnyDepth(v.d[i])
                    ELSE ListsAtAnyDepth(v.d[i])])
    ELSE IF IsList(v)
    THEN Flatten([i \in 1..Len(v.l) |-> ListsAtAnyDepth(v.l[i])])
    ELSE <<>>

\* The lists of a payload: the payload itself when it is a list, and every
\* list-valued field within it.
ListsOfPayload(data) ==
    IF IsList(data) THEN <<data>> \o ListsAtAnyDepth(data) ELSE ListsAtAnyDepth(data)

\* The objects contained in the given lists, in list order.
ObjectsIn(lists) ==
    Flatten([l \in 1..Len(lists) |->
               Flatten([i \in 1..Len(lists[l].l) |->
                          IF IsDict(lists[l].l[i]) THEN <<lists[l].l[i]>> ELSE <<>>])])

\* C16: parse_top_json, for each kind, collects every list-valued field at
\* any nesting depth of the data payload and returns exactly one row per
\* object contained in the collected lists, in list order, none for elements
\* that are not objects; a row's rank is 0 and its pin_code null when the
\* entry has none; the search ends with a result for every document.
C16_EveryListEveryObject ==
    Called("parse_top_json") =>
        LET objects == ObjectsIn(ListsOfPayload(PayloadOf(xin.doc)))
            rows    == xout[1].rows
        IN  /\ ~xout[1].raised
            /\ Len(rows) = Len(objects)
            /\ \A i \in 1..Len(rows) :
                  /\ rows[i].district = get(objects[i], "name")
                  /\ (~HasKey(objects[i], "rank") /\ ~HasKey(objects[i], "position"))
                        => rows[i].rank = PyInt(0)
                  /\ HasKey(objects[i], "rank") => rows[i].rank = get(objects[i], "rank")
                  /\ (~HasKey(objects[i], "pincode") /\ ~HasKey(objects[i], "pin"))
                        => rows[i].pin_code = PyNone

====
